---- MODULE Spec2Model ----
(***************************************************************************)
(* Model of okteto-sync (entrypoint.py): one run() of the script that      *)
(* reconciles GitHub deployments with Okteto preview environments.         *)
(*                                                                         *)
(* Strings that the code inspects character by character (refs, URLs,      *)
(* environment names, tokens of the preview listing) are sequences of      *)
(* one-character strings.  A back-link is the 1-based index of the linked  *)
(* record in the other catalog, 0 standing for None.                       *)
(***************************************************************************)
EXTENDS Integers, Sequences, FiniteSets, TLC

\* ------------------------------------------------------------------ bounds
MaxDeployments == 2
MaxEnvs == 2
MaxPageLen == 1

\* ------------------------------------------------------- string primitives
Range(s) == {s[i] : i \in 1..Len(s)}

SeqsUpTo(S, n) == UNION {[1..k -> S] : k \in 0..n}

\* Python's `needle in haystack` on str.
Contains(needle, haystack) ==
    \E i \in 0..(Len(haystack) - Len(needle)) :
        SubSeq(haystack, i + 1, i + Len(needle)) = needle

\* Python's str.strip(chars): drops, from both ends, every character that
\* belongs to the set of characters of `chars`.
StripChars(s, chars) ==
    LET keep == {i \in 1..Len(s) : s[i] \notin Range(chars)}
        Min(S) == CHOOSE m \in S : \A n \in S : m <= n
        Max(S) == CHOOSE m \in S : \A n \in S : m >= n
    IN  IF keep = {} THEN <<>> ELSE SubSeq(s, Min(keep), Max(keep))

\* str.lower on the letters the model uses.
LowerChar(c) ==
    CASE c = "N" -> "n"
      [] c = "S" -> "s"
      [] c = "T" -> "t"
      [] OTHER -> c

Lower(s) == [i \in 1..Len(s) |-> LowerChar(s[i])]

\* ------------------------------------------------- configuration constants
RefsHeads == <<"r", "e", "f", "s", "/", "h", "e", "a", "d", "s", "/">>

\* sys.argv[3]: the marker that identifies an Okteto URL.
OKTETO_DOMAIN == <<"o">>

\* sys.argv[4], already split: environment names that are never touched.
IGNORE_DEPLOYMENTS == {"ignored"}

\* ------------------------------------------- inputs: the external services
BranchMain == <<"m">>
BranchDev == <<"d", "e", "v">>

\* The branches the repository can have, in the order the API lists them.
AllBranches == <<BranchDev, BranchMain>>
BranchNames == {AllBranches[i] : i \in 1..Len(AllBranches)}

\* Values of a deployment's "ref".
Refs == {RefsHeads \o BranchMain, BranchDev}

EnvA == <<"a">>
EnvB == <<"b">>
EnvC == <<"c">>

\* environment_url values found in deployment statuses.
UrlA == <<"a", "o">>
UrlAB == <<"a", "b", "o">>
UrlOther == <<"b">>

\* The preview URL that deployments of a GitHub environment report.
UrlOf(environment) == IF environment = "x" THEN UrlA ELSE UrlAB

\* The status histories (first page of deployments/<id>/statuses) that a
\* deployment of the given GitHub environment can have.
StatusLists(environment) ==
    {<<>>,
     <<[environment_url |-> UrlOther]>>,
     <<[environment_url |-> UrlOf(environment)]>>,
     <<[environment_url |-> UrlOther], [environment_url |-> UrlOf(environment)]>>}

\* Creation instants (created_at, as the instant the ISO-8601 text denotes).
Instants == {1, 2}

\* Deployment records as the API returns them (the id is assigned on arrival).
ApiDeployments ==
    [environment : {"x", "y"}, ref : Refs, task : {"deploy"}, created_at : Instants]
    \cup {[environment |-> "ignored", ref |-> BranchDev, task |-> "deploy", created_at |-> 1],
          [environment |-> "x", ref |-> BranchDev, task |-> "build", created_at |-> 1]}

\* Rows of `okteto preview list`, each already a sequence of tokens.
WordName == <<"N", "a", "m", "e">>
WordScope == <<"S", "c", "o", "p", "e">>
WordSleeping == <<"S", "l", "e", "e", "p", "i", "n", "g">>
TokTrue == <<"T", "r", "u", "e">>
TokFalse == <<"f", "a", "l", "s", "e">>
TokPersonal == <<"p">>

HeaderRow == <<WordName, WordScope, WordSleeping>>
DataRows == {<<EnvA, TokPersonal, TokFalse>>, <<EnvB, TokPersonal, TokTrue>>,
             <<EnvC, TokPersonal, TokFalse>>}
ShortRow == <<EnvA, TokPersonal>>

\* The listings the command can print: with or without the heading row,
\* one row per preview environment (a name is listed once).
Listings ==
    LET body == {b \in SeqsUpTo(DataRows, MaxEnvs) :
                    \A i, j \in 1..Len(b) : b[i] = b[j] => i = j}
    IN  body \cup {<<HeaderRow>> \o b : b \in body} \cup {<<HeaderRow, ShortRow>>}

\* ------------------------------------------------------------------- state
VARIABLES
    DRY_RUN,             \* sys.argv[1], fixed for the run
    pc,                  \* position of run()
    failure,             \* the uncaught exception that ended the run, or "none"
    page,                \* params["page"] of the get_paged_resp in progress
    pending,             \* records of the fetched deployments page not yet examined
    hosting,             \* deployments that exist in the hosting service
    headings,            \* get_all's local: <<>> (None) until a heading row is read
    github_branches,
    github_deployments,
    okteto_deployments,
    remove_list_github,
    remove_list_okteto,
    todo,                \* rest of the list the current deletion loop iterates
    deleting,            \* the "Deleting:" lines printed so far
    github_calls,        \* DELETE requests issued: [deploy, status, active at the call]
    okteto_calls,        \* `okteto preview destroy` runs: [env, returncode]
    server,              \* the deployment listing of a service whose pages are known
    requests,            \* the pages get_paged_resp has requested from `server`
    yielded              \* the records get_paged_resp has yielded from `server`

vars == <<server, requests, yielded, DRY_RUN, pc, failure, page, pending, hosting, headings, github_branches,
          github_deployments, okteto_deployments, remove_list_github,
          remove_list_okteto, todo, deleting, github_calls, okteto_calls>>

Init ==
    /\ DRY_RUN \in BOOLEAN
    /\ pc = "get_all_branches"
    /\ failure = "none"
    /\ page = 1
    /\ pending = <<>>
    /\ hosting = {}
    /\ headings = <<>>
    /\ github_branches = <<>>
    /\ github_deployments = <<>>
    /\ okteto_deployments = <<>>
    /\ remove_list_github = <<>>
    /\ remove_list_okteto = <<>>
    /\ todo = <<>>
    /\ deleting = <<>>
    /\ github_calls = <<>>
    /\ okteto_calls = <<>>
    /\ server = <<>>
    /\ requests = <<>>
    /\ yielded = <<>>

\* ------------------------------------------------------------ Paged Fetcher
PER_PAGE == 100

\* params.setdefault("per_page", min(PER_PAGE, 100)), line 106.
PerPageParam == IF PER_PAGE < 100 THEN PER_PAGE ELSE 100

NoLinks == [rel \in {} |-> [page |-> 0]]
NextLink(p) == [rel \in {"next"} |-> [page |-> p]]

\* The responses the API can give to a request for page p of a listing of
\* which `have` records were already returned and at most `max` exist.
PageResponses(Records, have, max, p) ==
    LET room == max - have
        Least(S) == CHOOSE m \in S : \A n \in S : m <= n
        len == Least({room, MaxPageLen, PerPageParam})
    IN  {[json |-> recs, links |-> NoLinks] : recs \in SeqsUpTo(Records, len)}
        \cup {[json |-> recs, links |-> NextLink(p + 1)] :
                recs \in {r \in SeqsUpTo(Records, len) : Len(r) > 0 /\ Len(r) < room}}

\* NextPage of a fetcher that never looks at the links: it stops after the
\* first response.
NextPage_FirstOnly(resp) == 0

\* get_paged_resp, lines 112-117: the page to request next, 0 to break.
NextPage(resp) ==
    IF "next" \in DOMAIN resp.links THEN resp.links["next"].page ELSE 0

\* Raise as it would be under a handler that logs the error and goes on.
Raise_Swallowed(kind) == [pc |-> "connect_deployments", failure |-> kind]

\* An exception nobody catches ends run().
Raise(kind) == [pc |-> "failed", failure |-> kind]

\* s lists some of the elements of `all`, each once, in the order of `all`.
IsSubListing(s, all) ==
    \E f \in [1..Len(s) -> 1..Len(all)] :
        /\ \A i \in 1..Len(s) : s[i] = all[f[i]]
        /\ \A i, j \in 1..Len(s) : i < j => f[i] < f[j]

\* get_all_branches: one request of get_paged_resp("branches") per step.
GetAllBranches ==
    /\ pc = "get_all_branches"
    /\ \/ \E resp \in PageResponses(BranchNames, Len(github_branches), Len(AllBranches), page) :
            /\ IsSubListing(github_branches \o resp.json, AllBranches)
            /\ github_branches' = github_branches \o resp.json
            /\ IF NextPage(resp) # 0
               THEN /\ page' = NextPage(resp)
                    /\ pc' = pc
               ELSE /\ page' = 1
                    /\ pc' = "get_okteto_deployments"
            /\ UNCHANGED failure
       \/ /\ pc' = Raise("read").pc
          /\ failure' = Raise("read").failure
          /\ UNCHANGED <<page, github_branches>>
    /\ UNCHANGED <<server, requests, yielded, DRY_RUN, pending, hosting, headings, github_deployments, okteto_deployments,
                   remove_list_github, remove_list_okteto, todo, deleting,
                   github_calls, okteto_calls>>

\* ------------------------------------------------------ Deployment Catalog
\* GitHubDeployment(...) with __post_init__: the in-memory record built from
\* an API record.  created_at is the instant the ISO-8601 text denotes.
GitHubDeployment(deploy_id, name, branch, task, created) ==
    [deploy_id |-> deploy_id,
     name |-> name,
     branch |-> StripChars(branch, RefsHeads),
     task |-> task,
     created |-> created,
     url |-> <<>>,
     okteto |-> 0]

\* is_okteto_deployment's loop over the statuses: the index of the first
\* status whose environment_url contains OKTETO_DOMAIN, 0 if there is none.
FirstOktetoStatus(statuses) ==
    LET hits == {i \in 1..Len(statuses) : Contains(OKTETO_DOMAIN, statuses[i].environment_url)}
    IN  IF hits = {} THEN 0 ELSE CHOOSE i \in hits : \A j \in hits : i <= j

\* PreFilter without the ignore-list.
PreFilter_TaskOnly(obj) == obj.task = "deploy"

\* The cheap part of the filter on line 171, evaluated before the status fetch.
PreFilter(obj) == obj.task = "deploy" /\ obj.name \notin IGNORE_DEPLOYMENTS

\* list(...) on line 232 returns once the page in hand is used up and
\* get_paged_resp has no further page to request.
AfterRecord(rest, nextpage) ==
    IF rest = <<>> /\ nextpage = 0 THEN "get_all" ELSE "get_okteto_deployments"

\* get_okteto_deployments, the request: the generator asks get_paged_resp
\* for the next page once the records of the previous one are used up.
FetchDeploymentsPage ==
    /\ pc = "get_okteto_deployments"
    /\ pending = <<>>
    /\ page # 0
    /\ \/ \E resp \in PageResponses(ApiDeployments, Cardinality(hosting), MaxDeployments, page) :
            LET base == Cardinality(hosting)
                recs == [i \in 1..Len(resp.json) |->
                            [id |-> base + i,
                             environment |-> resp.json[i].environment,
                             ref |-> resp.json[i].ref,
                             task |-> resp.json[i].task,
                             created_at |-> resp.json[i].created_at]]
            IN  /\ pending' = recs
                /\ hosting' = hosting \cup
                      {[deploy_id |-> r.id, name |-> r.environment, created |-> r.created_at] :
                          r \in Range(recs)}
                /\ page' = NextPage(resp)
                /\ pc' = AfterRecord(recs, NextPage(resp))
                /\ UNCHANGED failure
       \/ /\ pc' = Raise("read").pc
          /\ failure' = Raise("read").failure
          /\ UNCHANGED <<page, pending, hosting>>
    /\ UNCHANGED <<server, requests, yielded, DRY_RUN, headings, github_branches, github_deployments, okteto_deployments,
                   remove_list_github, remove_list_okteto, todo, deleting,
                   github_calls, okteto_calls>>

\* get_okteto_deployments, the loop body for one record: build the object,
\* filter it, and fetch its statuses when the cheap filter lets it through.
ExamineDeployment ==
    /\ pc = "get_okteto_deployments"
    /\ pending # <<>>
    /\ LET deployment == Head(pending)
           obj == GitHubDeployment(deployment.id, deployment.environment, deployment.ref,
                                   deployment.task, deployment.created_at)
       IN  IF ~PreFilter(obj)
           THEN /\ pending' = Tail(pending)
                /\ pc' = AfterRecord(Tail(pending), page)
                /\ UNCHANGED <<failure, github_deployments>>
           ELSE \/ \E statuses \in StatusLists(obj.name) :
                     LET hit == FirstOktetoStatus(statuses)
                     IN  /\ github_deployments' =
                               IF hit = 0 THEN github_deployments
                               ELSE Append(github_deployments,
                                           [obj EXCEPT !.url = statuses[hit].environment_url])
                         /\ pending' = Tail(pending)
                         /\ pc' = AfterRecord(Tail(pending), page)
                         /\ UNCHANGED failure
                \/ /\ pc' = Raise("read").pc
                   /\ failure' = Raise("read").failure
                   /\ UNCHANGED <<pending, github_deployments>>
    /\ UNCHANGED <<server, requests, yielded, DRY_RUN, page, hosting, headings, github_branches, okteto_deployments,
                   remove_list_github, remove_list_okteto, todo, deleting,
                   github_calls, okteto_calls>>

\* ----------------------------------------------------- Environment Catalog
KeyName == Lower(WordName)
KeyScope == Lower(WordScope)
KeySleeping == Lower(WordSleeping)

\* Line 205: the row names both the Name and the Scope column.
IsHeading(row) ==
    /\ \E i \in 1..Len(row) : Contains(WordName, row[i])
    /\ \E i \in 1..Len(row) : Contains(WordScope, row[i])

\* Index of the row that becomes `headings`, 0 when no row qualifies.
HeadingRow(rows) ==
    LET hits == {i \in 1..Len(rows) : IsHeading(rows[i])}
    IN  IF hits = {} THEN 0 ELSE CHOOSE i \in hits : \A j \in hits : i <= j

\* dict(zip(headings, cleaned)): a later column of the same name wins.
Structured(heads, cleaned) ==
    LET n == IF Len(heads) < Len(cleaned) THEN Len(heads) ELSE Len(cleaned)
        keys == {heads[i] : i \in 1..n}
        last(k) == CHOOSE i \in 1..n : heads[i] = k /\ \A j \in 1..n : heads[j] = k => j <= i
    IN  [k \in keys |-> cleaned[last(k)]]

\* OktetoDeployment.__init__ raises TypeError unless these keys are given.
HasRequiredKeys(structured) == {KeyName, KeyScope, KeySleeping} \subseteq DOMAIN structured

OktetoDeployment(structured) ==
    [name |-> structured[KeyName],
     scope |-> structured[KeyScope],
     sleeping |-> Lower(structured[KeySleeping]) \in {<<"1">>, <<"o", "n">>, <<"t", "r", "u", "e">>},
     github |-> 0]

\* Line 206: the lowercased tokens of the heading row; <<>>, which stands
\* for None, without one (a heading row has at least one token).
Headings(rows) ==
    LET h == HeadingRow(rows)
    IN  IF h = 0 THEN <<>> ELSE [i \in 1..Len(rows[h]) |-> Lower(rows[h][i])]

\* ParsedRows with a fallback to the usual columns when no heading is found.
ParsedRows_DefaultColumns(rows) ==
    LET h == HeadingRow(rows)
        heads == IF h = 0 THEN <<KeyName, KeyScope, KeySleeping>> ELSE Headings(rows)
    IN  [i \in 1..(Len(rows) - h) |-> Structured(heads, rows[h + i])]

\* OktetoDeployment.get_all on a listing that the command printed: the
\* rows after the heading, each turned into a keyword dictionary.
ParsedRows(rows) ==
    LET h == HeadingRow(rows)
    IN  IF h = 0 THEN <<>>
        ELSE [i \in 1..(Len(rows) - h) |-> Structured(Headings(rows), rows[h + i])]

\* list(OktetoDeployment.get_all()), line 234.
GetAll ==
    /\ pc = "get_all"
    /\ \/ \E rows \in Listings :
            LET parsed == ParsedRows(rows)
            IN  /\ headings' = Headings(rows)
                /\ IF \A i \in 1..Len(parsed) : HasRequiredKeys(parsed[i])
                   THEN /\ okteto_deployments' = [i \in 1..Len(parsed) |-> OktetoDeployment(parsed[i])]
                        /\ pc' = "connect_deployments"
                        /\ UNCHANGED failure
                   ELSE /\ pc' = Raise("read").pc
                        /\ failure' = Raise("read").failure
                        /\ UNCHANGED okteto_deployments
       \/ /\ pc' = Raise("read").pc
          /\ failure' = Raise("read").failure
          /\ UNCHANGED <<okteto_deployments, headings>>
    /\ UNCHANGED <<server, requests, yielded, DRY_RUN, page, pending, hosting, github_branches, github_deployments,
                   remove_list_github, remove_list_okteto, todo, deleting,
                   github_calls, okteto_calls>>

\* ------------------------------------------------------------------ Matcher
\* FirstMatch that passes over the deployments that already have a partner.
FirstMatch_Unlinked(name, github) ==
    LET hits == {g \in 1..Len(github) : github[g].okteto = 0 /\ Contains(name, github[g].url)}
    IN  IF hits = {} THEN 0 ELSE CHOOSE g \in hits : \A j \in hits : g <= j

\* The inner loop of connect_deployments: the first deployment whose url
\* contains the environment's name, 0 when the loop ends without a break.
FirstMatch(name, github) ==
    LET hits == {g \in 1..Len(github) : Contains(name, github[g].url)}
    IN  IF hits = {} THEN 0 ELSE CHOOSE g \in hits : \A j \in hits : g <= j

\* connect_deployments from environment k on: both catalogs after the loops.
RECURSIVE ConnectFrom(_, _, _)
ConnectFrom(k, github, okteto) ==
    IF k > Len(okteto) THEN [github |-> github, okteto |-> okteto]
    ELSE LET g == FirstMatch(okteto[k].name, github)
         IN  IF g = 0 THEN ConnectFrom(k + 1, github, okteto)
             ELSE ConnectFrom(k + 1,
                              [github EXCEPT ![g].okteto = k],
                              [okteto EXCEPT ![k].github = g])

connect_deployments(github, okteto) == ConnectFrom(1, github, okteto)

ConnectDeployments ==
    /\ pc = "connect_deployments"
    /\ LET linked == connect_deployments(github_deployments, okteto_deployments)
       IN  /\ github_deployments' = linked.github
           /\ okteto_deployments' = linked.okteto
    /\ pc' = "check_github"
    /\ UNCHANGED <<server, requests, yielded, DRY_RUN, failure, page, pending, hosting, headings, github_branches,
                   remove_list_github, remove_list_okteto, todo, deleting,
                   github_calls, okteto_calls>>

\* ------------------------------------------------------ Staleness Classifier
\* CheckGithubFrom with line 249 missing: the cascade to the environment.
RECURSIVE CheckGithubFrom_NoCascade(_, _, _, _, _)
CheckGithubFrom_NoCascade(k, github, branches, rm_github, rm_okteto) ==
    IF k > Len(github) THEN [github |-> rm_github, okteto |-> rm_okteto]
    ELSE IF github[k].okteto = 0 \/ github[k].branch \notin Range(branches)
         THEN CheckGithubFrom_NoCascade(k + 1, github, branches, Append(rm_github, k), rm_okteto)
         ELSE CheckGithubFrom_NoCascade(k + 1, github, branches, rm_github, rm_okteto)

\* The loop of lines 241-249 from deployment k on: both removal lists.
RECURSIVE CheckGithubFrom(_, _, _, _, _)
CheckGithubFrom(k, github, branches, rm_github, rm_okteto) ==
    IF k > Len(github) THEN [github |-> rm_github, okteto |-> rm_okteto]
    ELSE IF github[k].okteto = 0
         THEN CheckGithubFrom(k + 1, github, branches, Append(rm_github, k), rm_okteto)
         ELSE IF github[k].branch \notin Range(branches)
              THEN CheckGithubFrom(k + 1, github, branches, Append(rm_github, k),
                                   Append(rm_okteto, github[k].okteto))
              ELSE CheckGithubFrom(k + 1, github, branches, rm_github, rm_okteto)

\* SortedByCreated when the sort is forgotten: the list in discovery order.
SortedByCreated_Unsorted(list, github) == list

\* SortedByCreated with ties broken the wrong way: an element is inserted
\* before the elements created at the same instant.
RECURSIVE SortedByCreated_Unstable(_, _)
SortedByCreated_Unstable(list, github) ==
    IF list = <<>> THEN <<>>
    ELSE LET rest == SortedByCreated_Unstable(SubSeq(list, 1, Len(list) - 1), github)
             x == list[Len(list)]
             pos == Cardinality({i \in 1..Len(rest) :
                                    github[rest[i]].created < github[x].created})
         IN  SubSeq(rest, 1, pos) \o <<x>> \o SubSeq(rest, pos + 1, Len(rest))

\* sorted(..., key=attrgetter("created")): a stable ascending sort.  `list`
\* holds indices into github; the result is built by stable insertion.
RECURSIVE SortedByCreated(_, _)
SortedByCreated(list, github) ==
    IF list = <<>> THEN <<>>
    ELSE LET rest == SortedByCreated(SubSeq(list, 1, Len(list) - 1), github)
             x == list[Len(list)]
             \* x goes after every element that is not newer than it
             pos == Cardinality({i \in 1..Len(rest) :
                                    github[rest[i]].created <= github[x].created})
         IN  SubSeq(rest, 1, pos) \o <<x>> \o SubSeq(rest, pos + 1, Len(rest))

\* The pc a deletion loop moves to once `rest` is what is left to iterate.
LoopOrElse(rest, loop, after) == IF rest = <<>> THEN after ELSE loop

CheckGithub ==
    /\ pc = "check_github"
    /\ LET lists == CheckGithubFrom(1, github_deployments, github_branches, <<>>, <<>>)
           sorted == SortedByCreated(lists.github, github_deployments)
       IN  /\ remove_list_github' = lists.github
           /\ remove_list_okteto' = lists.okteto
           /\ todo' = sorted
           /\ pc' = LoopOrElse(sorted, "delete_github", "check_okteto")
    /\ UNCHANGED <<server, requests, yielded, DRY_RUN, failure, page, pending, hosting, headings, github_branches,
                   github_deployments, okteto_deployments, deleting,
                   github_calls, okteto_calls>>

\* CheckOktetoFrom with the test of line 261 inverted.
RECURSIVE CheckOktetoFrom_Linked(_, _, _)
CheckOktetoFrom_Linked(k, okteto, rm_okteto) ==
    IF k > Len(okteto) THEN rm_okteto
    ELSE IF okteto[k].github # 0
         THEN CheckOktetoFrom_Linked(k + 1, okteto, Append(rm_okteto, k))
         ELSE CheckOktetoFrom_Linked(k + 1, okteto, rm_okteto)

\* CheckOktetoFrom with the test of line 261 left out.
RECURSIVE CheckOktetoFrom_All(_, _, _)
CheckOktetoFrom_All(k, okteto, rm_okteto) ==
    IF k > Len(okteto) THEN rm_okteto
    ELSE CheckOktetoFrom_All(k + 1, okteto, Append(rm_okteto, k))

\* The loop of lines 260-263 from environment k on.
RECURSIVE CheckOktetoFrom(_, _, _)
CheckOktetoFrom(k, okteto, rm_okteto) ==
    IF k > Len(okteto) THEN rm_okteto
    ELSE IF okteto[k].github = 0
         THEN CheckOktetoFrom(k + 1, okteto, Append(rm_okteto, k))
         ELSE CheckOktetoFrom(k + 1, okteto, rm_okteto)

CheckOkteto ==
    /\ pc = "check_okteto"
    /\ LET list == CheckOktetoFrom(1, okteto_deployments, remove_list_okteto)
       IN  /\ remove_list_okteto' = list
           /\ todo' = list
           /\ pc' = LoopOrElse(list, "delete_okteto", "done")
    /\ UNCHANGED <<server, requests, yielded, DRY_RUN, failure, page, pending, hosting, headings, github_branches,
                   github_deployments, okteto_deployments, remove_list_github,
                   deleting, github_calls, okteto_calls>>

\* -------------------------------------------------------- Deletion Scheduler
\* Status codes a DELETE can end with: no content, another 2xx, an error.
NoContent == 204
Accepted == 202
Unprocessable == 422
DeleteStatuses == {NoContent, Accepted, Unprocessable}

\* urllib.request.urlopen raises HTTPError for a status outside 2xx.
UrlopenRaises(status) == status < 200 \/ status >= 300

\* The hosting service's rule (comment on lines 251-252): the most recent
\* deployment of an environment is the active one, and it is not removed
\* while older deployments of that environment exist.
IsActive(d, service) ==
    /\ \A h \in service : h.name = d.name => h.created <= d.created
    /\ \E h \in service : h.name = d.name /\ h.created < d.created

HostingRecord(d) == [deploy_id |-> d.deploy_id, name |-> d.name, created |-> d.created]

\* CallsDelete with the dry-run test dropped.
CallsDelete_Always(dry_run) == TRUE

\* Whether the 'Deleting' line is followed by the delete call (255, 268).
CallsDelete(dry_run) == ~dry_run

\* One iteration of the loop of lines 253-256.
DeleteGithub ==
    /\ pc = "delete_github"
    /\ todo # <<>>
    /\ LET k == Head(todo)
           deployment == github_deployments[k]
       IN  /\ deleting' = Append(deleting, [kind |-> "github", item |-> k])
           /\ todo' = Tail(todo)
           /\ IF CallsDelete(DRY_RUN)
              THEN \E status \in DeleteStatuses :
                     /\ github_calls' = Append(github_calls,
                            [deploy |-> k, status |-> status,
                             active |-> IsActive(HostingRecord(deployment), hosting)])
                     /\ hosting' = IF status = NoContent /\ ~IsActive(HostingRecord(deployment), hosting)
                                   THEN hosting \ {HostingRecord(deployment)}
                                   ELSE hosting
                     /\ IF UrlopenRaises(status)
                        THEN /\ pc' = Raise("github_delete").pc
                             /\ failure' = Raise("github_delete").failure
                        ELSE /\ pc' = LoopOrElse(Tail(todo), "delete_github", "check_okteto")
                             /\ UNCHANGED failure
              ELSE /\ pc' = LoopOrElse(Tail(todo), "delete_github", "check_okteto")
                   /\ UNCHANGED <<failure, github_calls, hosting>>
    /\ UNCHANGED <<server, requests, yielded, DRY_RUN, page, pending, headings, github_branches, github_deployments,
                   okteto_deployments, remove_list_github, remove_list_okteto,
                   okteto_calls>>

\* Exit codes of `okteto preview destroy`.
ReturnCodes == {0, 1}

\* AfterDestroy with line 191 moved above the command.
AfterDestroy_MarkedFirst(env, returncode) == [env EXCEPT !.sleeping = TRUE]

\* OktetoDeployment.delete after the command returned: check=True raises
\* on a non-zero exit code, otherwise the record is marked sleeping.
AfterDestroy(env, returncode) ==
    IF returncode # 0 THEN env ELSE [env EXCEPT !.sleeping = TRUE]

\* One iteration of the loop of lines 266-269.
DeleteOkteto ==
    /\ pc = "delete_okteto"
    /\ todo # <<>>
    /\ LET k == Head(todo)
       IN  /\ deleting' = Append(deleting, [kind |-> "okteto", item |-> k])
           /\ todo' = Tail(todo)
           /\ IF CallsDelete(DRY_RUN)
              THEN \E returncode \in ReturnCodes :
                     /\ okteto_calls' = Append(okteto_calls, [env |-> k, returncode |-> returncode])
                     /\ okteto_deployments' =
                           [okteto_deployments EXCEPT ![k] = AfterDestroy(@, returncode)]
                     /\ IF returncode # 0
                        THEN /\ pc' = Raise("okteto_delete").pc
                             /\ failure' = Raise("okteto_delete").failure
                        ELSE /\ pc' = LoopOrElse(Tail(todo), "delete_okteto", "done")
                             /\ UNCHANGED failure
              ELSE /\ pc' = LoopOrElse(Tail(todo), "delete_okteto", "done")
                   /\ UNCHANGED <<failure, okteto_calls, okteto_deployments>>
    /\ UNCHANGED <<server, requests, yielded, DRY_RUN, page, pending, hosting, headings, github_branches, github_deployments,
                   remove_list_github, remove_list_okteto, github_calls>>

\* ------------------------------------------------------------ specification
Next ==
    \/ GetAllBranches
    \/ FetchDeploymentsPage
    \/ ExamineDeployment
    \/ GetAll
    \/ ConnectDeployments
    \/ CheckGithub
    \/ DeleteGithub
    \/ CheckOkteto
    \/ DeleteOkteto

Spec == Init /\ [][Next]_vars

\* ============================================================== properties
\* Positions of run().
GithubChecked ==
    \/ pc \in {"delete_github", "check_okteto", "delete_okteto", "done"}
    \/ pc = "failed" /\ failure \in {"github_delete", "okteto_delete"}

OktetoChecked ==
    \/ pc \in {"delete_okteto", "done"}
    \/ pc = "failed" /\ failure = "okteto_delete"

ReadsCompleted ==
    /\ pc \notin {"get_all_branches", "get_okteto_deployments", "get_all"}
    /\ failure # "read"
    /\ page = 0
    /\ pending = <<>>

BranchMissing(k) == github_deployments[k].branch \notin Range(github_branches)

\* Some listed environment's name is contained in the deployment's URL.
HasEnvironment(k) ==
    \E e \in 1..Len(okteto_deployments) :
        Contains(okteto_deployments[e].name, github_deployments[k].url)

\* Some catalog deployment's URL contains the environment's name.
HasDeployment(e) ==
    \E k \in 1..Len(github_deployments) :
        Contains(okteto_deployments[e].name, github_deployments[k].url)

\* C1: once run() has classified the deployments, every catalog deployment
\* whose normalized branch is not in the branch catalog is in the deployment
\* deletion list, and its matched environment, if it has one, is in the
\* environment deletion list.
C1_BranchMissingDeleted ==
    GithubChecked =>
        \A k \in 1..Len(github_deployments) :
            BranchMissing(k) =>
                /\ k \in Range(remove_list_github)
                /\ github_deployments[k].okteto # 0 =>
                       github_deployments[k].okteto \in Range(remove_list_okteto)

C1_Witness ==
    /\ pc = "delete_github"
    /\ \E k \in 1..Len(github_deployments) :
          /\ BranchMissing(k)
          /\ github_deployments[k].okteto # 0
          /\ github_deployments[k].okteto \in Range(remove_list_okteto)
    /\ \E k \in 1..Len(github_deployments) : ~BranchMissing(k)

\* C2: a deployment is put in the deployment deletion list only if no listed
\* environment's name is contained in its URL or its normalized branch is
\* absent from the branch catalog.
C2_OnlyOrphansDeleted ==
    GithubChecked =>
        \A k \in Range(remove_list_github) : ~HasEnvironment(k) \/ BranchMissing(k)

\* C3: at the end of classification an environment whose name is in no
\* catalog deployment's URL is in the environment deletion list, and every
\* environment in that list is there for this reason or by the cascade from a
\* branch-missing deployment linked to it.
C3_UnmatchedEnvironmentsDeleted ==
    OktetoChecked =>
        /\ \A e \in 1..Len(okteto_deployments) :
              ~HasDeployment(e) => e \in Range(remove_list_okteto)
        /\ \A e \in Range(remove_list_okteto) :
              \/ ~HasDeployment(e)
              \/ \E k \in 1..Len(github_deployments) :
                    github_deployments[k].okteto = e /\ BranchMissing(k)

C3_Witness ==
    /\ pc = "delete_okteto"
    /\ \E e \in Range(remove_list_okteto) : ~HasDeployment(e)
    /\ \E e \in Range(remove_list_okteto) : HasDeployment(e)
    /\ github_deployments # <<>>

\* C4: no delete call is issued before the branch fetch, every page of the
\* deployment fetch, every status fetch and the environment listing have
\* completed, and a run in which a read fails ends with no delete call.
C4_NoDeleteBeforeReads ==
    /\ (github_calls # <<>> \/ okteto_calls # <<>>) => ReadsCompleted
    /\ failure = "read" => pc = "failed" /\ github_calls = <<>> /\ okteto_calls = <<>>

C4_Witness ==
    /\ github_calls # <<>>
    /\ okteto_calls # <<>>
    /\ github_branches # <<>>
    /\ Len(github_deployments) = MaxDeployments

\* ----- the deletion plan of a snapshot, stated without the loops of run()
Indices(n) == [i \in 1..n |-> i]

Orphans == {k \in 1..Len(github_deployments) :
               github_deployments[k].okteto = 0 \/ BranchMissing(k)}

\* Number of orphans that go before k: the older ones, and among those of
\* the same instant the ones found earlier.
Before(k) ==
    {j \in Orphans :
        \/ github_deployments[j].created < github_deployments[k].created
        \/ github_deployments[j].created = github_deployments[k].created /\ j < k}

ExpectedGithubPlan ==
    [i \in 1..Cardinality(Orphans) |->
        [kind |-> "github", item |-> CHOOSE k \in Orphans : Cardinality(Before(k)) = i - 1]]

ExpectedOktetoPlan ==
    LET Cascades(k) == github_deployments[k].okteto # 0 /\ BranchMissing(k)
        Unlinked(e) == okteto_deployments[e].github = 0
        cascade == SelectSeq(Indices(Len(github_deployments)), Cascades)
        unlinked == SelectSeq(Indices(Len(okteto_deployments)), Unlinked)
    IN  [i \in 1..Len(cascade) |-> [kind |-> "okteto", item |-> github_deployments[cascade[i]].okteto]]
        \o [i \in 1..Len(unlinked) |-> [kind |-> "okteto", item |-> unlinked[i]]]

ExpectedPlan == ExpectedGithubPlan \o ExpectedOktetoPlan

\* The delete calls issued so far, in the shape of plan entries.
CallsAsPlan ==
    [i \in 1..Len(github_calls) |-> [kind |-> "github", item |-> github_calls[i].deploy]]
    \o [i \in 1..Len(okteto_calls) |-> [kind |-> "okteto", item |-> okteto_calls[i].env]]

IsPrefix(s, t) == Len(s) <= Len(t) /\ SubSeq(t, 1, Len(s)) = s

RunEnded == pc = "done" \/ (pc = "failed" /\ failure # "read")

\* C5 (as claimed): a dry run issues no delete call and the 'Deleting'
\* entries it emits are exactly the delete calls that a live run on the same
\* snapshot issues, in the same order.
C5_DryRunPlanIsLiveRun ==
    /\ DRY_RUN => github_calls = <<>> /\ okteto_calls = <<>>
    /\ DRY_RUN /\ pc = "done" => deleting = ExpectedPlan
    /\ ~DRY_RUN /\ RunEnded => CallsAsPlan = ExpectedPlan

\* C5 (amended): a dry run issues no delete call and emits the full plan; a
\* live run issues the calls of that plan in the same order, all of them when
\* it completes, and only those up to the call that raised when it aborts.
C5_DryRunPlanLiveRunPrefix ==
    /\ DRY_RUN => github_calls = <<>> /\ okteto_calls = <<>>
    /\ DRY_RUN /\ pc = "done" => deleting = ExpectedPlan
    /\ ~DRY_RUN /\ GithubChecked => /\ IsPrefix(CallsAsPlan, ExpectedPlan)
                                    /\ CallsAsPlan = deleting
    /\ ~DRY_RUN /\ pc = "done" => CallsAsPlan = ExpectedPlan
    /\ ~DRY_RUN /\ pc = "failed" /\ failure = "github_delete" =>
           UrlopenRaises(github_calls[Len(github_calls)].status)
    /\ ~DRY_RUN /\ pc = "failed" /\ failure = "okteto_delete" =>
           okteto_calls[Len(okteto_calls)].returncode # 0

C5_Witness ==
    /\ DRY_RUN
    /\ pc = "done"
    /\ \E i \in 1..Len(deleting) : deleting[i].kind = "github"
    /\ \E i \in 1..Len(deleting) : deleting[i].kind = "okteto"
    /\ Len(deleting) >= 3

\* Position of x in a list without repetitions.
PositionIn(list, x) == CHOOSE p \in 1..Len(list) : list[p] = x

\* C6: deployment delete calls are issued oldest first, and deployments
\* created at the same instant are deleted in the order in which they were
\* added to the deletion list.
C6_OldestFirstStable ==
    \A i, j \in 1..Len(github_calls) :
        i < j =>
            LET a == github_calls[i].deploy
                b == github_calls[j].deploy
            IN  /\ a \in Range(remove_list_github)
                /\ b \in Range(remove_list_github)
                /\ github_deployments[a].created <= github_deployments[b].created
                /\ github_deployments[a].created = github_deployments[b].created =>
                       PositionIn(remove_list_github, a) < PositionIn(remove_list_github, b)

C6_Witness ==
    /\ Len(github_calls) >= 2
    /\ PositionIn(remove_list_github, github_calls[1].deploy)
          > PositionIn(remove_list_github, github_calls[2].deploy)

\* C7 (as claimed): every deployment delete call targets a record that is
\* inactive at the moment of the call, i.e. not the newest deployment of its
\* environment name while an older one of that name still exists.
C7_TargetsInactive ==
    \A i \in 1..Len(github_calls) : ~github_calls[i].active

\* C7 (amended): when a delete call is issued for a deployment, every older
\* deployment of the same environment name that is in the deletion list has
\* already received its delete call.
C7_OlderQueuedDeletedFirst ==
    \A i \in 1..Len(github_calls) :
        \A k \in Range(remove_list_github) :
            LET d == github_deployments[github_calls[i].deploy]
            IN  (github_deployments[k].name = d.name /\ github_deployments[k].created < d.created)
                    => \E j \in 1..(i - 1) : github_calls[j].deploy = k

C7_Witness ==
    /\ Len(github_calls) >= 2
    /\ github_deployments[github_calls[1].deploy].name = github_deployments[github_calls[2].deploy].name
    /\ github_deployments[github_calls[1].deploy].created < github_deployments[github_calls[2].deploy].created
    /\ github_calls[1].deploy > github_calls[2].deploy
    /\ github_calls[1].status = NoContent
    /\ ~github_calls[2].active

\* C8: when the preview listing has no heading row the environment catalog
\* is empty, every catalog deployment is put in the deployment deletion list
\* and no environment is put in the environment deletion list.
C8_NoHeadingDeletesEveryDeployment ==
    (headings = <<>> /\ failure # "read"
        /\ pc \notin {"get_all_branches", "get_okteto_deployments", "get_all"}) =>
        /\ okteto_deployments = <<>>
        /\ remove_list_okteto = <<>>
        /\ GithubChecked => remove_list_github = Indices(Len(github_deployments))

C8_Witness ==
    /\ headings = <<>>
    /\ pc = "done"
    /\ Len(github_deployments) = MaxDeployments
    /\ remove_list_github = Indices(MaxDeployments)
    /\ \E k \in 1..Len(github_deployments) : ~BranchMissing(k)

\* C9: a deployment delete call that ends with a status other than 'no
\* content' does not stop the run: the run does not fail, and every
\* deployment of the deletion list still receives its delete call.
C9_DeleteFailureTolerated ==
    (\E i \in 1..Len(github_calls) : github_calls[i].status # NoContent) =>
        /\ failure # "github_delete"
        /\ pc \in {"check_okteto", "delete_okteto", "done", "failed"} =>
              \A k \in Range(remove_list_github) :
                  \E j \in 1..Len(github_calls) : github_calls[j].deploy = k

\* C10: when the destroy command of an environment exits non-zero the run
\* aborts there: the failing call is the last one, the environments later in
\* the list get no destroy call, and the sleeping flag of the environment is
\* as it was (it becomes true only with a destroy that exits with zero).
C10_DestroyFailureAborts ==
    /\ [](failure = "okteto_delete" =>
            /\ pc = "failed"
            /\ okteto_calls[Len(okteto_calls)].returncode # 0
            /\ \A i \in 1..(Len(okteto_calls) - 1) : okteto_calls[i].returncode = 0
            /\ \A k \in Range(todo) : \A i \in 1..Len(okteto_calls) : okteto_calls[i].env # k)
    /\ [][pc # "failed"]_vars
    /\ [][\A e \in 1..Len(okteto_deployments) :
             okteto_deployments'[e].sleeping # okteto_deployments[e].sleeping =>
                 /\ okteto_deployments'[e].sleeping
                 /\ okteto_calls' = Append(okteto_calls, [env |-> e, returncode |-> 0])
         ]_<<okteto_deployments, pc>>
    /\ [][(okteto_calls' # okteto_calls /\ okteto_calls'[Len(okteto_calls')].returncode # 0) =>
             /\ okteto_deployments' = okteto_deployments
             /\ pc' = "failed"
             /\ failure' = "okteto_delete"]_vars

C10_Witness ==
    /\ failure = "okteto_delete"
    /\ todo # <<>>
    /\ ~okteto_deployments[okteto_calls[Len(okteto_calls)].env].sleeping

\* connect_deployments has returned (the catalogs are not touched later,
\* but for the sleeping flag).
Connected ==
    \/ pc \in {"check_github", "delete_github", "check_okteto", "delete_okteto", "done"}
    \/ pc = "failed" /\ failure \in {"github_delete", "okteto_delete"}

\* C11: after connect_deployments a deployment is the back-link of at most
\* one environment, an environment is the back-link of at most one
\* deployment, and the back-links agree: environment e points to deployment
\* k exactly when k points to e.
C11_LinksOneToOne ==
    Connected =>
        \A k \in 1..Len(github_deployments) : \A e \in 1..Len(okteto_deployments) :
            okteto_deployments[e].github = k <=> github_deployments[k].okteto = e

\* C15: running connect_deployments again on the catalogs it has linked
\* leaves every back-link of both catalogs as it was.
C15_MatchingIdempotent ==
    pc = "check_github" =>
        LET again == connect_deployments(github_deployments, okteto_deployments)
        IN  /\ again.github = github_deployments
            /\ again.okteto = okteto_deployments

C15_Witness ==
    /\ pc = "check_github"
    /\ \E k \in 1..Len(github_deployments) : github_deployments[k].okteto # 0
    /\ \E k \in 1..Len(github_deployments) : github_deployments[k].okteto = 0
    /\ \E e, f \in 1..Len(okteto_deployments) :
          e # f /\ okteto_deployments[e].github # 0 /\ okteto_deployments[f].github # 0

\* Every unlinked environment is in the environment deletion list.
UnlinkedQueued ==
    \A e \in 1..Len(okteto_deployments) :
        okteto_deployments[e].github = 0 => e \in Range(remove_list_okteto)

\* C16 (as claimed): both deletion lists are complete before the first
\* delete call: no deployment delete call is issued before the environment
\* deletion list has received its unlinked-environment entries.
C16_ListsCompleteBeforeDelete ==
    github_calls # <<>> => UnlinkedQueued

\* C16 (amended): the deployment deletion list, with the cascaded
\* environments, is complete before the first deployment delete call; the
\* unlinked environments are added after the deployment delete calls, and
\* the environment deletion list is complete before the first destroy call.
C16_EachListCompleteBeforeItsCalls ==
    /\ github_calls # <<>> =>
          /\ Range(remove_list_github) = Orphans
          /\ \A k \in 1..Len(github_deployments) :
                (github_deployments[k].okteto # 0 /\ BranchMissing(k)) =>
                    github_deployments[k].okteto \in Range(remove_list_okteto)
    /\ pc = "delete_github" => ~UnlinkedQueued \/ \A e \in 1..Len(okteto_deployments) :
                                                     okteto_deployments[e].github # 0
    /\ okteto_calls # <<>> =>
          /\ UnlinkedQueued
          /\ [i \in 1..Len(remove_list_okteto) |->
                [kind |-> "okteto", item |-> remove_list_okteto[i]]] = ExpectedOktetoPlan
          /\ Len(github_calls) = Len(remove_list_github)

C16_Witness ==
    /\ github_calls # <<>>
    /\ okteto_calls # <<>>
    /\ \E e \in 1..Len(okteto_deployments) : okteto_deployments[e].github = 0
    /\ \E e \in 1..Len(okteto_deployments) : okteto_deployments[e].github # 0

NoRepetition(list) == \A i, j \in 1..Len(list) : list[i] = list[j] => i = j

\* C17: no record is queued twice: each environment is at most once in the
\* environment deletion list, each deployment at most once in the deployment
\* deletion list, and a run issues at most one delete call per record.
C17_NoRecordQueuedTwice ==
    /\ NoRepetition(remove_list_okteto)
    /\ NoRepetition(remove_list_github)
    /\ NoRepetition([i \in 1..Len(github_calls) |-> github_calls[i].deploy])
    /\ NoRepetition([i \in 1..Len(okteto_calls) |-> okteto_calls[i].env])

C17_Witness ==
    /\ pc = "done"
    /\ Len(okteto_calls) = MaxEnvs
    /\ \E i \in 1..Len(okteto_calls) : okteto_deployments[okteto_calls[i].env].github # 0
    /\ \E i \in 1..Len(okteto_calls) : okteto_deployments[okteto_calls[i].env].github = 0

\* C18: at the end of classification no environment that is left out of the
\* environment deletion list has its back-link pointing to a deployment that
\* is in the deployment deletion list.
C18_NoKeptEnvironmentOfDeletedDeployment ==
    OktetoChecked =>
        \A e \in 1..Len(okteto_deployments) :
            (e \notin Range(remove_list_okteto) /\ okteto_deployments[e].github # 0) =>
                okteto_deployments[e].github \notin Range(remove_list_github)

\* =========================================================================
\* The deployment fetch against a service whose content is known: the pages
\* of the listing, their links and the status history of every deployment
\* are fixed by the initial state, so that what get_okteto_deployments
\* builds can be compared with what the service holds.

\* Refs of the deployments of such a service.
ServerRefs == {BranchMain, RefsHeads \o BranchMain, BranchDev, RefsHeads \o BranchDev}

UrlA2 == <<"o", "a">>

\* Status histories, page by page (the first page is the one that
\* deployments/<id>/statuses returns when no page is asked for).
OktetoHistory == <<<<[environment_url |-> UrlA]>>>>
StatusHistories ==
    {<<<<>>>>,
     <<<<[environment_url |-> UrlOther]>>>>,
     OktetoHistory,
     <<<<[environment_url |-> UrlOther], [environment_url |-> UrlA2], [environment_url |-> UrlA]>>>>,
     <<<<[environment_url |-> UrlOther]>>, <<[environment_url |-> UrlA]>>>>}

ServerDeployments ==
    [environment : {"x"}, ref : ServerRefs, task : {"deploy"}, created_at : {1},
     statuses : {OktetoHistory}]
    \cup [environment : {"x", "ignored"}, ref : {RefsHeads \o BranchMain},
          task : {"deploy", "build"}, created_at : {1}, statuses : StatusHistories]

\* The ways of cutting n records into pages: the lengths of the pages.
PageLengths(n) ==
    IF n = 0 THEN {<<0>>}
    ELSE {lens \in SeqsUpTo(1..MaxPageLen, n) :
             LET Sum[i \in 0..Len(lens)] == IF i = 0 THEN 0 ELSE Sum[i - 1] + lens[i]
             IN  Sum[Len(lens)] = n}

\* The page numbers of a chain of k pages: the first is page 1, the
\* following ones are whatever the service chooses to link to.
PageNumbers(k) ==
    {num \in [1..k -> 1..(k + 1)] :
        num[1] = 1 /\ \A i, j \in 1..k : num[i] = num[j] => i = j}

\* The listing of `recs` cut into pages of lengths `lens` numbered `num`.
ServerOf(recs, lens, num) ==
    LET Start[i \in 1..Len(lens)] == IF i = 1 THEN 0 ELSE Start[i - 1] + lens[i - 1]
        json(i) == [j \in 1..lens[i] |->
                      [id |-> Start[i] + j,
                       environment |-> recs[Start[i] + j].environment,
                       ref |-> recs[Start[i] + j].ref,
                       task |-> recs[Start[i] + j].task,
                       created_at |-> recs[Start[i] + j].created_at,
                       statuses |-> recs[Start[i] + j].statuses]]
        index(p) == CHOOSE i \in 1..Len(lens) : num[i] = p
    IN  [p \in {num[i] : i \in 1..Len(lens)} |->
            [json |-> json(index(p)),
             links |-> IF index(p) < Len(lens) THEN NextLink(num[index(p) + 1]) ELSE NoLinks]]

InitFetch ==
    /\ \E n \in 0..MaxDeployments :
         \E recs \in [1..n -> ServerDeployments] :
           \E lens \in PageLengths(n) :
             \E num \in PageNumbers(Len(lens)) :
                server = ServerOf(recs, lens, num)
    /\ requests = <<>>
    /\ yielded = <<>>
    /\ DRY_RUN = TRUE
    /\ pc = "get_okteto_deployments"
    /\ failure = "none"
    /\ page = 1
    /\ pending = <<>>
    /\ hosting = {}
    /\ headings = <<>>
    /\ github_branches = <<>>
    /\ github_deployments = <<>>
    /\ okteto_deployments = <<>>
    /\ remove_list_github = <<>>
    /\ remove_list_okteto = <<>>
    /\ todo = <<>>
    /\ deleting = <<>>
    /\ github_calls = <<>>
    /\ okteto_calls = <<>>

\* get_paged_resp("deployments"), one request (lines 108-117).
ServerFetchPage ==
    /\ pc = "get_okteto_deployments"
    /\ pending = <<>>
    /\ page # 0
    /\ LET resp == server[page]
       IN  /\ requests' = Append(requests, page)
           /\ pending' = resp.json
           /\ page' = NextPage(resp)
           /\ pc' = AfterRecord(resp.json, NextPage(resp))
    /\ UNCHANGED <<server, yielded, DRY_RUN, failure, hosting, headings, github_branches,
                   github_deployments, okteto_deployments, remove_list_github,
                   remove_list_okteto, todo, deleting, github_calls, okteto_calls>>

\* The response to deployments/<id>/statuses (line 145): the first page.
FirstPage(history) == history[1]

\* get_okteto_deployments, the loop body for the record that get_paged_resp
\* yields next (lines 161-172).
ServerExamineDeployment ==
    /\ pc = "get_okteto_deployments"
    /\ pending # <<>>
    /\ LET deployment == Head(pending)
           obj == GitHubDeployment(deployment.id, deployment.environment, deployment.ref,
                                   deployment.task, deployment.created_at)
           statuses == FirstPage(deployment.statuses)
           hit == FirstOktetoStatus(statuses)
       IN  /\ yielded' = Append(yielded, deployment)
           /\ github_deployments' =
                 IF PreFilter(obj) /\ hit # 0
                 THEN Append(github_deployments, [obj EXCEPT !.url = statuses[hit].environment_url])
                 ELSE github_deployments
           /\ pending' = Tail(pending)
           /\ pc' = AfterRecord(Tail(pending), page)
    /\ UNCHANGED <<server, requests, DRY_RUN, failure, page, hosting, headings,
                   github_branches, okteto_deployments, remove_list_github,
                   remove_list_okteto, todo, deleting, github_calls, okteto_calls>>

NextFetch ==
    \/ ServerFetchPage
    \/ ServerExamineDeployment

SpecFetch == InitFetch /\ [][NextFetch]_vars

\* The records the service holds, in the order of the chain of pages.
ServerRecord(deploy_id) ==
    CHOOSE r \in UNION {Range(server[p].json) : p \in DOMAIN server} : r.id = deploy_id

\* `s` without a leading `prefix`, unchanged when it does not start with it.
RemovePrefix(s, prefix) ==
    IF Len(s) >= Len(prefix) /\ SubSeq(s, 1, Len(prefix)) = prefix
    THEN SubSeq(s, Len(prefix) + 1, Len(s))
    ELSE s

Marked(statuses) ==
    {i \in 1..Len(statuses) : Contains(OKTETO_DOMAIN, statuses[i].environment_url)}

MarkedAnywhere(r) == \E p \in 1..Len(r.statuses) : Marked(r.statuses[p]) # {}

MarkedOnFirstPage(r) == Marked(r.statuses[1]) # {}

Eligible(r) == r.task = "deploy" /\ r.environment \notin IGNORE_DEPLOYMENTS

EligibleAnywhere(r) == Eligible(r) /\ MarkedAnywhere(r)

EligibleOnFirstPage(r) == Eligible(r) /\ MarkedOnFirstPage(r)

Ids(records) == [i \in 1..Len(records) |-> records[i].id]

CatalogIds == [k \in 1..Len(github_deployments) |-> github_deployments[k].deploy_id]

\* C13 (as claimed): the deployment catalog holds exactly the fetched
\* records with task deploy, a name outside the ignore-list and a marked
\* environment URL anywhere in their status history, each with a marked URL.
C13_CatalogIsMarkedAnywhere ==
    /\ CatalogIds = Ids(SelectSeq(yielded, EligibleAnywhere))
    /\ \A k \in 1..Len(github_deployments) :
          Contains(OKTETO_DOMAIN, github_deployments[k].url)

\* C13 (amended): the deployment catalog holds exactly the fetched records
\* with task deploy, a name outside the ignore-list and a marked
\* environment URL on the first page of their status history; the url of
\* each is the first marked URL of that page.
C13_CatalogIsMarkedOnFirstPage ==
    /\ CatalogIds = Ids(SelectSeq(yielded, EligibleOnFirstPage))
    /\ \A k \in 1..Len(github_deployments) :
          LET first == ServerRecord(github_deployments[k].deploy_id).statuses[1]
          IN  \E i \in Marked(first) :
                 /\ \A j \in Marked(first) : i <= j
                 /\ github_deployments[k].url = first[i].environment_url

\* The fetch is over; the catalog took a record whose first page has two
\* different marked URLs and left out one that is marked on a later page only.
C13_Witness ==
    /\ pc = "get_all"
    /\ \E k \in 1..Len(github_deployments) :
          github_deployments[k].url = UrlA2
    /\ \E i \in 1..Len(yielded) : Eligible(yielded[i]) /\ ~EligibleOnFirstPage(yielded[i])

\* The chain of pages of the service: page 1, then the page each 'next'
\* relation names, up to the page that has none.
RECURSIVE ChainFrom(_, _)
ChainFrom(p, fuel) ==
    IF fuel = 0 THEN <<>>
    ELSE <<p>> \o (IF "next" \in DOMAIN server[p].links
                   THEN ChainFrom(server[p].links["next"].page, fuel - 1)
                   ELSE <<>>)

Chain == ChainFrom(1, Cardinality(DOMAIN server))

\* The records of the pages `pages`, page after page.
RECURSIVE Concatenation(_)
Concatenation(pages) ==
    IF pages = <<>> THEN <<>>
    ELSE server[Head(pages)].json \o Concatenation(Tail(pages))

====
